---- MODULE Spec2Model ----
(***************************************************************************)
(* World-orchestration layer of the game server: tile grid with           *)
(* optimistic versions and dirty tracking (WorldManager), per-coordinate   *)
(* interaction serializer (InteractionManager), per-agent action queue     *)
(* (AgentActionQueue), world clock (TimeManager), weather (WeatherManager) *)
(* and the game loop with its persistence (Game, PlayerService).           *)
(***************************************************************************)
EXTENDS Integers, Sequences, FiniteSets, TLC

(***************************************************************************)
(* Bounds of the model                                                     *)
(***************************************************************************)
Width == 2
Height == 1
MaxWrites == 4
MaxReq == 3
MaxActions == 3
MaxNow == 2
MaxAdvances == 2
MaxTileEdits == 2
MaxMoves == 1
MaxInFlight == 1

VARIABLES
    tiles,          \* WorldManager.worldMap.tiles : in-bounds position -> Tile
    dirtyTiles,     \* WorldManager.dirtyTiles : set of positions
    writes,         \* number of accepted setTile calls (bounds the run)
    gridOp,         \* the last direct call of the grid API and what it returned
    players,        \* AgentManager.players : online player id -> position
    reqs,           \* calls of handleInteractionAsync that have not returned yet
    issued,         \* number of calls of handleInteractionAsync so far
    interactionQueues,  \* InteractionManager.interactionQueues : posKey -> promise
    microtasks,     \* continuations waiting in the microtask queue, oldest first
    processingCount,    \* InteractionManager.processingCount
    handlerLog,     \* the requests in the order processInteraction ran them
    lastResult,     \* the InteractionResult of the last processInteraction
    queues,         \* AgentActionQueue.queues : agent -> pending actions
    executing,      \* AgentActionQueue.executing : agent -> current action
    locks,          \* AgentActionQueue.locks : agent -> whether a lock is stored
    runs,           \* calls of processQueue that hold an executeNextAction promise
    enqueued,       \* number of calls of enqueue since the initial state
    execLog,        \* per agent, the actions whose execute() was invoked, in order
    feed,           \* per agent, the priorities enqueue accepted, in order
    queueOp,        \* the last call of enqueue or cancel and what it returned
    skipped,        \* the actions executeNextAction logged as timed out
    now,            \* Date.now()
    tick,           \* TimeManager.tick
    timeOfDay,      \* TimeManager.timeOfDay
    speedMultiplier,    \* TimeManager.speedMultiplier
    isActive,       \* TimeManager.isActive
    weather,        \* WeatherManager.current
    lifecycle,      \* how far Game.init and Game.shutdown have come
    dbTime,         \* the stored GameWorldState document's time field
    advances,       \* number of calls of advance on the running clock so far
    exactTick,      \* the tick of a clock that carries the fraction of a tick over
    carried,        \* the milliseconds that clock carries
    clockOp,        \* the last call on the clock and the listener calls it made
    loopRunning,    \* Game.gameLoopTimer is set
    scheduled,      \* setImmediate callbacks of Game.update that have not run yet
    terrainWrites,  \* saveDirtyTerrain calls awaiting the store, with their tiles
    playerWrites,   \* saveBatch calls awaiting the store, with their snapshots
    worldWrites,    \* saveWorldState calls awaiting the store, with their snapshot
    dbPlayers,      \* the stored position of every player
    dbChunks,       \* the stored dirtyChunks of the world map document
    dirtyPlayers,   \* AgentManager.dirtyPlayers
    moves,          \* number of player moves so far
    shutdownDirty,  \* the dirty tiles at the moment shutdown was called
    errorLog,       \* whether console.error reported a failed save, and in which turn last
    sinceSave       \* the time from Game.lastSaveTime to the last turn of the loop

gridVars == <<tiles, dirtyTiles, writes, gridOp>>
interactVars == <<reqs, issued, interactionQueues, microtasks, processingCount,
                  handlerLog, lastResult>>

queueVars == <<queues, executing, locks, runs, enqueued, execLog, feed, queueOp,
               skipped, now>>

clockVars == <<tick, timeOfDay, speedMultiplier, isActive, weather, lifecycle,
               dbTime, advances, exactTick, carried, clockOp>>

gameVars == <<loopRunning, scheduled, terrainWrites, playerWrites, worldWrites,
              dbPlayers, dbChunks, dirtyPlayers, moves, shutdownDirty, errorLog,
              sinceSave>>

vars == <<gridVars, players, interactVars, queueVars, clockVars, gameVars>>

\* what the calls of one component leave alone
GridFrame == UNCHANGED <<players, interactVars, queueVars, clockVars, gameVars>>
InteractFrame == UNCHANGED <<gridOp, players, queueVars, clockVars, gameVars>>
QueueFrame == UNCHANGED <<gridVars, players, interactVars, clockVars, gameVars>>
ClockFrame == UNCHANGED <<gridVars, players, interactVars, queueVars, gameVars>>
GameFrame == UNCHANGED <<gridOp, interactVars, queueVars>>

(***************************************************************************)
(* WorldManager: tiles                                                     *)
(***************************************************************************)
NoVersion == 0 - 1
NoDurability == 0 - 1
NoCrop == "none"

Pos(x, y) == [x |-> x, y |-> y]

\* in-bounds coordinates of the map
Coords == { Pos(x, y) : x \in 0..(Width - 1), y \in 0..(Height - 1) }
\* coordinates a caller may pass: the map and one ring around it
Positions == { Pos(x, y) : x \in (0 - 1)..Width, y \in 0..(Height - 1) }

MkTile(type, hasState, durability, tilled, watered, crop) ==
    [type |-> type, hasState |-> hasState, durability |-> durability,
     tilled |-> tilled, watered |-> watered, crop |-> crop, version |-> 0]

PlainTile(type) == MkTile(type, FALSE, NoDurability, FALSE, FALSE, NoCrop)
ResourceTile(type, d) == MkTile(type, TRUE, d, FALSE, FALSE, NoCrop)

VoidTile == PlainTile("VOID")
GrassTile == PlainTile("GRASS")
TreeTile == ResourceTile("TREE", 3)
RockTile == ResourceTile("ROCK", 5)
TilledTile == MkTile("FARMLAND", TRUE, NoDurability, TRUE, FALSE, NoCrop)

\* tileConfigs: the static properties the operations consult
Tillable(type) == type \in {"GRASS", "DIRT"}
Harvestable(type) == type \in {"TREE", "ROCK"}

\* worlds of the tile kinds generateDefaultWorld places (its choice is random;
\* the small map leaves out the ring of walls around them)
Layouts ==
    { [p \in Coords |-> GrassTile],
      [p \in Coords |-> IF p.x % 2 = 1 THEN TreeTile ELSE GrassTile],
      [p \in Coords |-> IF p.x % 2 = 1 THEN RockTile
                        ELSE IF p.y % 2 = 1 THEN PlainTile("WATER")
                        ELSE PlainTile("WALL")] }

IsInBounds(pos) ==
    /\ pos.x >= 0
    /\ pos.x < Width
    /\ pos.y >= 0
    /\ pos.y < Height

GetTile(ts, pos) == IF ~IsInBounds(pos) THEN VoidTile ELSE ts[pos]

GetTileVersion(ts, pos) == GetTile(ts, pos).version

IsTillable(ts, pos) == Tillable(GetTile(ts, pos).type)
IsHarvestable(ts, pos) == Harvestable(GetTile(ts, pos).type)

\* a setTile without its version check
VersionAcceptedUnchecked(current, expectedVersion) == TRUE

\* the optimistic lock of setTile: no expected version, or the stored one
VersionAccepted(current, expectedVersion) ==
    expectedVersion = NoVersion \/ current = expectedVersion

\* a grid is the pair of the tile matrix and the dirty set
Grid(ts, dirty) == [tiles |-> ts, dirty |-> dirty]

\* a dirty set that remembers only the last coordinate written
MarkOnlyLast(dirty, pos) == {pos}

MarkTileDirty(dirty, pos) == dirty \cup {pos}

\* a version stamp that trusts the version of the tile the caller passed
StampCallerVersion(tile, current) == [tile EXCEPT !.version = tile.version + 1]

\* tile.version = (currentTile?.version ?? 0) + 1
StampVersion(tile, current) == [tile EXCEPT !.version = current + 1]

\* setTile: [ok, grid]
SetTile(g, pos, tile, expectedVersion) ==
    IF ~IsInBounds(pos) THEN [ok |-> FALSE, grid |-> g]
    ELSE IF ~VersionAccepted(g.tiles[pos].version, expectedVersion)
         THEN [ok |-> FALSE, grid |-> g]
    ELSE [ok |-> TRUE,
          grid |-> Grid([g.tiles EXCEPT ![pos] =
                            StampVersion(tile, g.tiles[pos].version)],
                        MarkTileDirty(g.dirty, pos))]

TillLand(g, pos) ==
    IF ~IsTillable(g.tiles, pos) THEN [ok |-> FALSE, grid |-> g]
    ELSE SetTile(g, pos, TilledTile, GetTileVersion(g.tiles, pos))

PlantCrop(g, pos, cropId) ==
    LET tile == GetTile(g.tiles, pos) IN
    IF tile.type # "FARMLAND" THEN [ok |-> FALSE, grid |-> g]
    ELSE IF tile.crop # NoCrop THEN [ok |-> FALSE, grid |-> g]
    ELSE SetTile(g, pos,
                 [tile EXCEPT !.hasState = TRUE, !.crop = cropId],
                 tile.version)

WaterTile(g, pos) ==
    LET tile == GetTile(g.tiles, pos) IN
    IF tile.type # "FARMLAND" THEN [ok |-> FALSE, grid |-> g]
    ELSE IF ~tile.hasState THEN [ok |-> FALSE, grid |-> g]
    ELSE SetTile(g, pos, [tile EXCEPT !.watered = TRUE], tile.version)

GetDrops(type) ==
    CASE type = "TREE" -> <<"wood", "wood", "wood">>
      [] type = "ROCK" -> <<"stone", "stone", "stone", "stone", "stone">>
      [] OTHER -> <<>>

\* a harvest that removes the resource at the first call
HarvestAtOnce(g, pos) ==
    LET tile == GetTile(g.tiles, pos)
        fail == [ok |-> FALSE, complete |-> FALSE, drops |-> <<>>, grid |-> g]
    IN
    IF ~IsHarvestable(g.tiles, pos) THEN fail
    ELSE IF tile.durability = NoDurability THEN fail
    ELSE LET w == SetTile(g, pos, GrassTile, tile.version) IN
         IF ~w.ok THEN fail
         ELSE [ok |-> TRUE, complete |-> TRUE,
               drops |-> GetDrops(tile.type), grid |-> w.grid]

\* harvest: [ok, complete, drops, grid]
Harvest(g, pos) ==
    LET tile == GetTile(g.tiles, pos)
        fail == [ok |-> FALSE, complete |-> FALSE, drops |-> <<>>, grid |-> g]
    IN
    IF ~IsHarvestable(g.tiles, pos) THEN fail
    ELSE IF tile.durability = NoDurability THEN fail
    ELSE IF tile.durability - 1 <= 0
         THEN LET w == SetTile(g, pos, GrassTile, tile.version) IN
              IF ~w.ok THEN fail
              ELSE [ok |-> TRUE, complete |-> TRUE,
                    drops |-> GetDrops(tile.type), grid |-> w.grid]
    ELSE LET w == SetTile(g, pos,
                          [tile EXCEPT !.durability = tile.durability - 1],
                          tile.version) IN
         IF ~w.ok THEN fail
         ELSE [ok |-> TRUE, complete |-> FALSE, drops |-> <<>>,
               grid |-> w.grid]

\* tiles a caller of the public setTile may write; one carries the version of
\* an earlier read
NewTiles == {GrassTile, TilledTile, ResourceTile("TREE", 2),
             [TilledTile EXCEPT !.version = 2]}
ExpectedVersions == {NoVersion} \cup (0..(MaxWrites + 1))

NoGridOp == [op |-> "none", pos |-> Pos(0, 0), expected |-> NoVersion,
             ok |-> FALSE, complete |-> FALSE, drops |-> <<>>]

\* the outcome of a call that returns only a boolean
Plain(r) == [ok |-> r.ok, complete |-> FALSE, drops |-> <<>>, grid |-> r.grid]

GridInit ==
    /\ tiles \in Layouts
    /\ dirtyTiles = {}
    /\ writes = 0
    /\ gridOp = NoGridOp

\* the grid after a call, with the call recorded
GridStep(op, pos, expected, r) ==
    /\ r.ok => writes < MaxWrites
    /\ tiles' = r.grid.tiles
    /\ dirtyTiles' = r.grid.dirty
    /\ writes' = IF r.ok THEN writes + 1 ELSE writes
    /\ gridOp' = [op |-> op, pos |-> pos, expected |-> expected, ok |-> r.ok,
                  complete |-> r.complete, drops |-> r.drops]
    /\ GridFrame

DoSetTile ==
    \E pos \in Positions, tile \in NewTiles, ev \in ExpectedVersions :
        /\ GridStep("setTile", pos, ev,
                    Plain(SetTile(Grid(tiles, dirtyTiles), pos, tile, ev)))

DoTillLand ==
    \E pos \in Positions :
        /\ GridStep("till", pos, NoVersion,
                    Plain(TillLand(Grid(tiles, dirtyTiles), pos)))

DoPlantCrop ==
    \E pos \in Positions :
        /\ GridStep("plant", pos, NoVersion,
                    Plain(PlantCrop(Grid(tiles, dirtyTiles), pos, "wheat")))

DoWaterTile ==
    \E pos \in Positions :
        /\ GridStep("water", pos, NoVersion,
                    Plain(WaterTile(Grid(tiles, dirtyTiles), pos)))

DoHarvest ==
    \E pos \in Positions :
        /\ GridStep("harvest", pos, NoVersion,
                    Harvest(Grid(tiles, dirtyTiles), pos))

DoClearDirtyFlags ==
    /\ dirtyTiles' = {}
    /\ gridOp' = [NoGridOp EXCEPT !.op = "clear", !.ok = TRUE]
    /\ UNCHANGED <<tiles, writes>>
    /\ GridFrame

GridNext ==
    \/ DoSetTile
    \/ DoTillLand
    \/ DoPlantCrop
    \/ DoWaterTile
    \/ DoHarvest
    \/ DoClearDirtyFlags

(***************************************************************************)
(* InteractionManager                                                      *)
(***************************************************************************)
MaxInteractionDistanceX2 == 3

PlayerIds == {"p1", "p2"}
\* a player position is (x, y, z) in half cells; the height y plays no part
Pos3(x, z) == [x |-> x, z |-> z]

InteractionTypes == {"till", "plant", "harvest", "water", "chop", "mine", "look"}

To2D(pos3D) == Pos(pos3D.x \div 2, pos3D.z \div 2)

\* a check that lets every distance pass
DistanceNeverExceeded(a, b) == FALSE

\* calculateDistance(a, b) > MAX_INTERACTION_DISTANCE, compared as squares
DistanceExceeded(a, b) ==
    LET dx == a.x - b.x
        dy == a.y - b.y
    IN 4 * (dx * dx + dy * dy) > MaxInteractionDistanceX2 * MaxInteractionDistanceX2

Result(success, message) == [success |-> success, message |-> message]
NoResult == Result(FALSE, "none")

HandleTill(g, pos) ==
    IF ~IsTillable(g.tiles, pos)
    THEN [res |-> Result(FALSE, "notTillable"), grid |-> g]
    ELSE LET r == TillLand(g, pos) IN
         IF r.ok THEN [res |-> Result(TRUE, "tilled"), grid |-> r.grid]
         ELSE [res |-> Result(FALSE, "tillFailed"), grid |-> r.grid]

HandlePlant(g, pos, cropId) ==
    IF cropId = NoCrop THEN [res |-> Result(FALSE, "noCropId"), grid |-> g]
    ELSE IF GetTile(g.tiles, pos).type # "FARMLAND"
         THEN [res |-> Result(FALSE, "notFarmland"), grid |-> g]
    ELSE LET r == PlantCrop(g, pos, cropId) IN
         IF r.ok THEN [res |-> Result(TRUE, "planted"), grid |-> r.grid]
         ELSE [res |-> Result(FALSE, "plantFailed"), grid |-> r.grid]

HandleWater(g, pos) ==
    LET r == WaterTile(g, pos) IN
    IF r.ok THEN [res |-> Result(TRUE, "watered"), grid |-> r.grid]
    ELSE [res |-> Result(FALSE, "waterFailed"), grid |-> r.grid]

HandleHarvest(g, pos) ==
    IF ~IsHarvestable(g.tiles, pos)
    THEN [res |-> Result(FALSE, "notHarvestable"), grid |-> g]
    ELSE LET r == Harvest(g, pos) IN
         IF ~r.ok THEN [res |-> Result(FALSE, "harvestFailed"), grid |-> r.grid]
         ELSE IF r.complete /\ r.drops # <<>>
              THEN [res |-> Result(TRUE, "harvested"), grid |-> r.grid]
         ELSE [res |-> Result(TRUE, "harvesting"), grid |-> r.grid]

HandleLook(g, pos) == [res |-> Result(TRUE, "view"), grid |-> g]

\* processInteraction: [res, grid]
ProcessInteraction(g, pl, req) ==
    IF req.player \notin DOMAIN pl
    THEN [res |-> Result(FALSE, "noPlayer"), grid |-> g]
    ELSE LET playerPos == To2D(pl[req.player]) IN
         IF DistanceExceeded(playerPos, req.target)
         THEN [res |-> Result(FALSE, "tooFar"), grid |-> g]
         ELSE CASE req.type = "till" -> HandleTill(g, req.target)
                [] req.type = "plant" -> HandlePlant(g, req.target, req.crop)
                [] req.type = "water" -> HandleWater(g, req.target)
                [] req.type \in {"chop", "mine"} -> HandleHarvest(g, req.target)
                [] req.type = "look" -> HandleLook(g, playerPos)
                [] OTHER -> [res |-> Result(FALSE, "unknownType"), grid |-> g]

\* the requests callers issue
RequestInputs ==
    { [player |-> p, type |-> t, target |-> c, crop |-> IF t = "plant" THEN "wheat" ELSE NoCrop] :
        p \in PlayerIds, t \in InteractionTypes, c \in Coords }
    \cup { [player |-> "p1", type |-> "plant", target |-> c, crop |-> NoCrop] : c \in Coords }
    \cup { [player |-> "ghost", type |-> "look", target |-> c, crop |-> NoCrop] : c \in Coords }

NoPromise == 0

\* where the two players stand: p1 next to the first tile, p2 off the map
PlayerStart(p) == IF p = "p1" THEN Pos3(1, 0) ELSE Pos3(2 * Width + 3, 1)

InteractInit ==
    /\ players = [p \in PlayerIds |-> PlayerStart(p)]
    /\ reqs = <<>>
    /\ issued = 0
    /\ interactionQueues = [c \in Positions |-> NoPromise]
    /\ microtasks = <<>>
    /\ processingCount = 0
    /\ handlerLog = <<>>
    /\ lastResult = NoResult

\* the body of handleInteractionAsync from the call of processInteraction to its
\* await of currentPromise; the promise of request id is id
RunProcess(id, req) ==
    LET r == ProcessInteraction(Grid(tiles, dirtyTiles), players, req) IN
    /\ tiles' = r.grid.tiles
    /\ dirtyTiles' = r.grid.dirty
    /\ writes' = IF r.grid.tiles # tiles THEN writes + 1 ELSE writes
    /\ lastResult' = r.res
    /\ handlerLog' = Append(handlerLog, [id |-> id, target |-> req.target])
    /\ interactionQueues' = [interactionQueues EXCEPT ![req.target] = id]
    /\ processingCount' = processingCount + 1
    /\ microtasks' = Append(IF id \in DOMAIN reqs THEN Tail(microtasks) ELSE microtasks, id)
    /\ reqs' = (id :> [st |-> "awaitCurrent", req |-> req]) @@ reqs

\* a call of handleInteractionAsync, up to its first await
HandleInteractionAsync ==
    \E req \in RequestInputs :
        /\ issued < MaxReq
        /\ issued' = issued + 1
        /\ IF interactionQueues[req.target] # NoPromise
           THEN /\ reqs' = ((issued + 1) :> [st |-> "awaitPrevious", req |-> req]) @@ reqs
                /\ microtasks' = Append(microtasks, issued + 1)
                /\ UNCHANGED <<tiles, dirtyTiles, writes, interactionQueues,
                               processingCount, handlerLog, lastResult>>
           ELSE RunProcess(issued + 1, req)
        /\ InteractFrame

\* the oldest continuation runs: a request that waited for the previous promise
\* goes on to processInteraction
ResumeAfterPrevious ==
    /\ microtasks # <<>>
    /\ reqs[Head(microtasks)].st = "awaitPrevious"
    /\ RunProcess(Head(microtasks), reqs[Head(microtasks)].req)
    /\ UNCHANGED issued
    /\ InteractFrame

\* a finally block that never finds its own promise in the map
NeverLastInteraction(queuesByPos, key, id) == FALSE

\* this.interactionQueues.get(posKey) === currentPromise
IsLastInteraction(queuesByPos, key, id) == queuesByPos[key] = id

\* the oldest continuation runs: a request whose currentPromise is fulfilled
\* returns through its finally block
ReturnResult ==
    /\ microtasks # <<>>
    /\ LET id == Head(microtasks)
           key == reqs[id].req.target
       IN /\ reqs[id].st = "awaitCurrent"
          /\ processingCount' = processingCount - 1
          /\ interactionQueues' =
                IF IsLastInteraction(interactionQueues, key, id)
                THEN [interactionQueues EXCEPT ![key] = NoPromise]
                ELSE interactionQueues
          /\ reqs' = [i \in DOMAIN reqs \ {id} |-> reqs[i]]
          /\ microtasks' = Tail(microtasks)
    /\ UNCHANGED <<issued, handlerLog, lastResult, tiles, dirtyTiles, writes>>
    /\ InteractFrame

InteractNext ==
    \/ HandleInteractionAsync
    \/ ResumeAfterPrevious
    \/ ReturnResult

(***************************************************************************)
(* AgentActionQueue                                                        *)
(***************************************************************************)
CRITICAL == 0
HIGH == 1
NORMAL == 2
LOW == 3
QueueLimit == 100

Agents == {"a1", "a2"}
\* the timeout field is optional
NoTimeout == 0 - 1
NoAction == [id |-> 0]

\* the actions callers build: priority, cancellable, timeout
ActionShapes ==
    { [priority |-> CRITICAL, cancellable |-> TRUE, timeout |-> NoTimeout],
      [priority |-> NORMAL, cancellable |-> FALSE, timeout |-> 0],
      [priority |-> LOW, cancellable |-> TRUE, timeout |-> 1] }

\* an insertion before the first entry of a greater or equal priority value
InsertBeforeEqual(queue, action) ==
    LET lower == { i \in 1..Len(queue) : queue[i].priority >= action.priority }
        insertIndex == IF lower = {} THEN Len(queue) + 1
                       ELSE CHOOSE i \in lower : \A j \in lower : i <= j
    IN SubSeq(queue, 1, insertIndex - 1) \o <<action>>
         \o SubSeq(queue, insertIndex, Len(queue))

\* an insertion that ignores the priorities
InsertAtEnd(queue, action) == Append(queue, action)

\* insertByPriority: before the first entry of a strictly greater priority value
InsertByPriority(queue, action) ==
    LET lower == { i \in 1..Len(queue) : queue[i].priority > action.priority }
        insertIndex == IF lower = {} THEN Len(queue) + 1
                       ELSE CHOOSE i \in lower : \A j \in lower : i <= j
    IN SubSeq(queue, 1, insertIndex - 1) \o <<action>>
         \o SubSeq(queue, insertIndex, Len(queue))

\* a processQueue that does not look at the lock
LockIgnored(l, agentId) == FALSE

\* processQueue's test of the execution lock
LockHeld(l, agentId) == l[agentId]

\* a length check that lets one action more in
QueueFullOffByOne(queue) == Len(queue) > QueueLimit

\* enqueue's check of the queue length
QueueFull(queue) == Len(queue) >= QueueLimit

\* if (action.timeout): undefined and 0 are both falsy
HasTimeout(action) == action.timeout # NoTimeout /\ action.timeout # 0

\* the timeout check of executeNextAction
Expired(action, t) ==
    HasTimeout(action) /\ t - action.timestamp > action.timeout

\* the loop of executeNextAction up to its next await: expired actions are
\* shifted and dropped, the first other one is the one to execute
RECURSIVE TakeNext(_, _)
TakeNext(queue, t) ==
    IF queue = <<>> THEN [action |-> NoAction, queue |-> <<>>, skipped |-> {}]
    ELSE IF Expired(Head(queue), t)
         THEN [TakeNext(Tail(queue), t) EXCEPT !.skipped = @ \cup {Head(queue).id}]
    ELSE [action |-> Head(queue), queue |-> Tail(queue), skipped |-> {}]

NoQueueOp == [op |-> "none", agent |-> "none", id |-> 0, ok |-> FALSE]

QueueInit ==
    /\ queues = [a \in Agents |-> <<>>]
    /\ executing = [a \in Agents |-> NoAction]
    /\ locks = [a \in Agents |-> FALSE]
    /\ runs = {}
    /\ enqueued = 0
    /\ execLog = [a \in Agents |-> <<>>]
    /\ feed = [a \in Agents |-> <<>>]
    /\ queueOp = NoQueueOp
    /\ skipped = {}
    /\ now = 0

\* agent a1 after QueueLimit enqueues of NORMAL actions while the first of them
\* is still running: one short of the limit is pending
LoadedAction(k) ==
    [id |-> k - QueueLimit, priority |-> NORMAL, cancellable |-> FALSE,
     timeout |-> NoTimeout, timestamp |-> 0]

QueueLoadedInit ==
    /\ queues = [a \in Agents |->
                    IF a = "a1" THEN [k \in 1..(QueueLimit - 1) |-> LoadedAction(k)]
                    ELSE <<>>]
    /\ executing = [a \in Agents |->
                       IF a = "a1" THEN LoadedAction(0) ELSE NoAction]
    /\ locks = [a \in Agents |-> a = "a1"]
    /\ runs = {[run |-> 0 - QueueLimit, agent |-> "a1",
                action |-> 0 - QueueLimit, st |-> "body"]}
    /\ enqueued = 0
    /\ execLog = [a \in Agents |->
                     IF a = "a1" THEN <<[id |-> 0 - QueueLimit, priority |-> NORMAL]>>
                     ELSE <<>>]
    /\ feed = [a \in Agents |->
                  IF a = "a1" THEN [k \in 1..QueueLimit |-> NORMAL] ELSE <<>>]
    /\ queueOp = NoQueueOp
    /\ skipped = {}
    /\ now = MaxNow - 1

\* the number of action bodies that have settled
Completed ==
    LET RECURSIVE Started(_)
        Started(as) == IF as = {} THEN 0
                       ELSE LET a == CHOOSE x \in as : TRUE
                            IN Len(execLog[a]) + Started(as \ {a})
    IN Started(Agents) - Cardinality({ r \in runs : r.st = "body" })

\* executeNextAction of run `run` goes round its loop over `queue` until it
\* awaits a body or finds the queue empty
ExecuteNextAction(run, agentId, queue, others) ==
    LET r == TakeNext(queue, now) IN
    /\ queues' = [queues EXCEPT ![agentId] = r.queue]
    /\ executing' = [executing EXCEPT ![agentId] = r.action]
    /\ skipped' = skipped \cup r.skipped
    /\ execLog' = IF r.action = NoAction THEN execLog
                  ELSE [execLog EXCEPT ![agentId] =
                            Append(@, [id |-> r.action.id,
                                       priority |-> r.action.priority])]
    /\ runs' = others \cup
                 {[run |-> run, agent |-> agentId, action |-> r.action.id,
                   st |-> IF r.action = NoAction THEN "unlock" ELSE "body"]}

\* enqueue, with the processQueue it calls up to that call's await
Enqueue ==
    \E agentId \in Agents, shape \in ActionShapes :
        LET action == [id |-> enqueued + 1, priority |-> shape.priority,
                       cancellable |-> shape.cancellable,
                       timeout |-> shape.timeout, timestamp |-> now]
            queue == InsertByPriority(queues[agentId], action)
        IN
        /\ enqueued < MaxActions
        /\ enqueued' = enqueued + 1
        /\ queueOp' = [op |-> "enqueue", agent |-> agentId, id |-> action.id,
                       ok |-> ~QueueFull(queues[agentId])]
        /\ IF QueueFull(queues[agentId])
           THEN UNCHANGED <<queues, executing, locks, runs, execLog, feed,
                            skipped>>
           ELSE /\ feed' = [feed EXCEPT ![agentId] = Append(@, action.priority)]
                /\ IF LockHeld(locks, agentId)
                   THEN /\ queues' = [queues EXCEPT ![agentId] = queue]
                        /\ UNCHANGED <<executing, locks, runs, execLog, skipped>>
                   ELSE /\ ExecuteNextAction(action.id, agentId, queue, runs)
                        /\ locks' = [locks EXCEPT ![agentId] = TRUE]
        /\ UNCHANGED now
        /\ QueueFrame

\* how the body of an action settles: it resolves with a success or a failure
\* result, or it rejects
BodyOutcomes == {"success", "failure", "throw"}

\* a loop that lets the rejection of a body escape
StopsOnThrow(outcome) == outcome # "throw"

\* the try block of executeNextAction warns about a failure result and catches
\* a rejection: the loop goes round again after every outcome
LoopContinues(outcome) == outcome \in BodyOutcomes

\* the body of the executing action settles and executeNextAction goes on with
\* its loop
BodyDone ==
    \E r \in runs, outcome \in BodyOutcomes :
        /\ r.st = "body"
        /\ Completed < MaxActions
        /\ IF LoopContinues(outcome)
           THEN ExecuteNextAction(r.run, r.agent, queues[r.agent], runs \ {r})
           ELSE /\ executing' = [executing EXCEPT ![r.agent] = NoAction]
                /\ runs' = (runs \ {r}) \cup
                             {[r EXCEPT !.action = NoAction.id, !.st = "unlock"]}
                /\ UNCHANGED <<queues, execLog, skipped>>
        /\ queueOp' = [op |-> "bodyDone", agent |-> r.agent, id |-> r.action,
                       ok |-> outcome = "success"]
        /\ UNCHANGED <<locks, enqueued, feed, now>>
        /\ QueueFrame

\* processQueue resumes after its await and deletes the lock
Unlock ==
    \E r \in runs :
        /\ r.st = "unlock"
        /\ locks' = [locks EXCEPT ![r.agent] = FALSE]
        /\ runs' = runs \ {r}
        /\ queueOp' = NoQueueOp
        /\ UNCHANGED <<queues, executing, enqueued, execLog, feed, skipped, now>>
        /\ QueueFrame

\* a cancel that removes a queued action whether or not it is cancellable
CancelAny(action) == TRUE

\* cancel's test of the cancellable flag
Cancellable(action) == action.cancellable

\* cancel(agentId, actionId): [ok, queue]
CancelIn(queue, current, actionId) ==
    LET found == { i \in 1..Len(queue) : queue[i].id = actionId }
        index == CHOOSE i \in found : \A j \in found : i <= j
    IN IF found # {} /\ Cancellable(queue[index])
       THEN [ok |-> TRUE,
             queue |-> SubSeq(queue, 1, index - 1)
                         \o SubSeq(queue, index + 1, Len(queue))]
       ELSE IF current.id = actionId /\ Cancellable(current)
            THEN [ok |-> TRUE, queue |-> queue]
       ELSE [ok |-> FALSE, queue |-> queue]

\* cancel, called with the id of an action some caller has built
Cancel ==
    \E agentId \in Agents, actionId \in 1..enqueued :
        LET r == CancelIn(queues[agentId], executing[agentId], actionId) IN
        /\ queues' = [queues EXCEPT ![agentId] = r.queue]
        /\ queueOp' = [op |-> "cancel", agent |-> agentId, id |-> actionId,
                       ok |-> r.ok]
        /\ UNCHANGED <<executing, locks, runs, enqueued, execLog, feed, skipped,
                       now>>
        /\ QueueFrame

\* time passes
ClockTick ==
    /\ now < MaxNow
    /\ now' = now + 1
    /\ queueOp' = NoQueueOp
    /\ UNCHANGED <<queues, executing, locks, runs, enqueued, execLog, feed,
                   skipped>>
    /\ QueueFrame

QueueNext ==
    \/ Enqueue
    \/ BodyDone
    \/ Unlock
    \/ Cancel
    \/ ClockTick

\* clearAll(agentId): the queue, the executing entry and the lock of the agent
\* are deleted; a run that awaits a body is not told
ClearAll ==
    \E agentId \in Agents :
        /\ queues' = [queues EXCEPT ![agentId] = <<>>]
        /\ executing' = [executing EXCEPT ![agentId] = NoAction]
        /\ locks' = [locks EXCEPT ![agentId] = FALSE]
        /\ queueOp' = [op |-> "clearAll", agent |-> agentId, id |-> 0, ok |-> TRUE]
        /\ UNCHANGED <<runs, enqueued, execLog, feed, skipped, now>>
        /\ QueueFrame

QueueClearNext ==
    \/ Enqueue
    \/ BodyDone
    \/ Unlock
    \/ ClockTick
    \/ ClearAll

(***************************************************************************)
(* WeatherManager                                                          *)
(***************************************************************************)
\* WEATHER_TRANSITIONS, the probabilities in percent
WeatherTransitions(current) ==
    CASE current = "clear" -> <<<<"clear", 60>>, <<"rain", 20>>, <<"fog", 10>>,
                                <<"storm", 5>>, <<"snow", 5>>>>
      [] current = "rain" -> <<<<"rain", 50>>, <<"clear", 30>>, <<"storm", 15>>,
                               <<"fog", 5>>>>
      [] current = "storm" -> <<<<"storm", 40>>, <<"rain", 40>>, <<"clear", 20>>>>
      [] current = "snow" -> <<<<"snow", 50>>, <<"clear", 30>>, <<"fog", 20>>>>
      [] current = "fog" -> <<<<"fog", 50>>, <<"clear", 30>>, <<"rain", 20>>>>

\* values of Math.random(), in percent
Rolls == {5, 60}
\* the largest draw, in percent
MaxDraw == 100

\* a scan that wants the draw strictly below the sum
RECURSIVE ScanStrict(_, _, _, _)
ScanStrict(transitions, i, sum, roll) ==
    IF i > Len(transitions) THEN transitions[Len(transitions)][1]
    ELSE IF roll < sum + transitions[i][2] THEN transitions[i][1]
    ELSE ScanStrict(transitions, i + 1, sum + transitions[i][2], roll)

\* the loop of getNextWeather from entry i on, with the sum so far
RECURSIVE ScanTransitions(_, _, _, _)
ScanTransitions(transitions, i, sum, roll) ==
    IF i > Len(transitions) THEN transitions[Len(transitions)][1]
    ELSE IF roll <= sum + transitions[i][2] THEN transitions[i][1]
    ELSE ScanTransitions(transitions, i + 1, sum + transitions[i][2], roll)

GetNextWeather(current, roll) ==
    ScanTransitions(WeatherTransitions(current), 1, 0, roll)

\* WeatherManager.update with the two random numbers it may draw
WeatherUpdate(period, current, r1, r2) ==
    IF period = "night" /\ r1 < 10 THEN "fog" ELSE GetNextWeather(current, r2)

(***************************************************************************)
(* TimeManager                                                             *)
(***************************************************************************)
TicksPerDay == 240
AutoSaveIntervalMs == 60000
TickIntervalMs == 50

ResolvePeriod(t) ==
    LET periodLength == TicksPerDay \div 4
        normalized == ((t % TicksPerDay) + TicksPerDay) % TicksPerDay
    IN IF normalized < periodLength THEN "dawn"
       ELSE IF normalized < periodLength * 2 THEN "day"
       ELSE IF normalized < periodLength * 3 THEN "dusk"
       ELSE "night"

\* an applyTickAdvance that calls the listener after every advance
ApplyTickAdvanceAlwaysNotifies(t, period, delta) ==
    IF delta <= 0 THEN [tick |-> t, timeOfDay |-> period, fired |-> 0]
    ELSE [tick |-> t + delta, timeOfDay |-> ResolvePeriod(t + delta), fired |-> 1]

\* applyTickAdvance: [tick, timeOfDay, fired], fired being the number of calls
\* of the one listener Game registers
ApplyTickAdvance(t, period, delta) ==
    IF delta <= 0 THEN [tick |-> t, timeOfDay |-> period, fired |-> 0]
    ELSE [tick |-> t + delta, timeOfDay |-> ResolvePeriod(t + delta),
          fired |-> IF ResolvePeriod(t + delta) # period THEN 1 ELSE 0]

\* the number of ticks advance(deltaTime) asks for
TicksToAdvance(deltaTime, speed) == (deltaTime * speed) \div TickIntervalMs

\* the fields of a stored time document may be missing
NoField == 0 - 1
TimeDoc(t, period, speed) ==
    [tick |-> t, timeOfDay |-> period, speedMultiplier |-> speed]
NoDoc == [tick |-> NoField, timeOfDay |-> "noDoc", speedMultiplier |-> NoField]

ToSnapshot(t, period, speed) ==
    [tick |-> t, timeOfDay |-> period, speedMultiplier |-> speed]

FromSnapshotToDocument(snapshot) ==
    TimeDoc(snapshot.tick, snapshot.timeOfDay, snapshot.speedMultiplier)

ToSnapshotFromDocument(doc) ==
    [tick |-> IF doc.tick = NoField THEN 0 ELSE doc.tick,
     timeOfDay |-> IF doc.timeOfDay = "missing" THEN "day" ELSE doc.timeOfDay,
     speedMultiplier |-> IF doc.speedMultiplier = NoField THEN 1
                         ELSE doc.speedMultiplier]

\* what the store may hold when the world starts: nothing, documents an earlier
\* run wrote with saveWorldState, and documents some of whose fields are missing
StoredTimeDocs ==
    { FromSnapshotToDocument(ToSnapshot(d[1], ResolvePeriod(d[1]), d[2])) :
        d \in {<<59, 1>>, <<60, 2>>} }
    \cup { TimeDoc(500, "missing", 2) }

Deltas == {25, 50, 3000}
\* the time between two turns of the game loop: the interval of the timer, or
\* a whole save interval when the process was held up
LoopDeltas == {50, AutoSaveIntervalMs}
Speeds == {0, 1, 2}

NoClockOp == [op |-> "none", fired |-> 0, delta |-> 0, arg |-> 0]

ClockInit ==
    /\ tick = 0
    /\ timeOfDay = ResolvePeriod(0)
    /\ speedMultiplier = 1
    /\ isActive = FALSE
    /\ weather = "clear"
    /\ lifecycle = "new"
    /\ dbTime = NoDoc
    /\ advances = 0
    /\ exactTick = 0
    /\ carried = 0
    /\ clockOp = NoClockOp

\* advance(deltaTime) with the listener it may call
AdvanceClock(deltaTime, r1, r2) ==
    IF ~isActive
    THEN /\ clockOp' = [op |-> "advance", fired |-> 0, delta |-> deltaTime, arg |-> 0]
         /\ UNCHANGED <<tick, timeOfDay, weather, advances, exactTick, carried>>
    ELSE LET r == ApplyTickAdvance(tick, timeOfDay,
                                   TicksToAdvance(deltaTime, speedMultiplier))
             total == carried + deltaTime * speedMultiplier
         IN /\ tick' = r.tick
            /\ timeOfDay' = r.timeOfDay
            /\ weather' = IF r.fired > 0
                          THEN WeatherUpdate(r.timeOfDay, weather, r1, r2)
                          ELSE weather
            /\ clockOp' = [op |-> "advance", fired |-> r.fired, delta |-> deltaTime, arg |-> 0]
            /\ advances' = advances + 1
            /\ exactTick' = exactTick + total \div TickIntervalMs
            /\ carried' = total % TickIntervalMs

\* Game.loadWorldState: restore from the stored document, or store the clock
\* when there is none, then one update of the weather
LoadWorldState ==
    \E doc \in StoredTimeDocs \cup {NoDoc}, r1 \in Rolls, r2 \in Rolls :
        /\ lifecycle = "new"
        /\ lifecycle' = "loaded"
        /\ IF doc # NoDoc
           THEN LET snapshot == ToSnapshotFromDocument(doc)
                    r == ApplyTickAdvance(snapshot.tick, snapshot.timeOfDay, 0)
                IN /\ tick' = r.tick
                   /\ timeOfDay' = r.timeOfDay
                   /\ speedMultiplier' = snapshot.speedMultiplier
                   /\ clockOp' = [op |-> "restore", fired |-> r.fired, delta |-> 0, arg |-> 0]
                   /\ exactTick' = r.tick
                   /\ carried' = 0
                   /\ dbTime' = doc
                   /\ weather' = WeatherUpdate(r.timeOfDay, weather, r1, r2)
           ELSE /\ dbTime' = FromSnapshotToDocument(
                                ToSnapshot(tick, timeOfDay, speedMultiplier))
                /\ clockOp' = [op |-> "save", fired |-> 0, delta |-> 0, arg |-> 0]
                /\ weather' = WeatherUpdate(timeOfDay, weather, r1, r2)
                /\ UNCHANGED <<tick, timeOfDay, speedMultiplier, exactTick, carried>>
        /\ UNCHANGED <<isActive, advances>>
        /\ ClockFrame

StartClock ==
    /\ lifecycle = "loaded"
    /\ ~isActive
    /\ isActive' = TRUE
    /\ clockOp' = [op |-> "start", fired |-> 0, delta |-> 0, arg |-> 0]
    /\ UNCHANGED <<tick, timeOfDay, speedMultiplier, weather, lifecycle, dbTime,
                   advances, exactTick, carried>>
    /\ ClockFrame

StopClock ==
    /\ isActive
    /\ isActive' = FALSE
    /\ clockOp' = [op |-> "stop", fired |-> 0, delta |-> 0, arg |-> 0]
    /\ UNCHANGED <<tick, timeOfDay, speedMultiplier, weather, lifecycle, dbTime,
                   advances, exactTick, carried>>
    /\ ClockFrame

Advance ==
    \E deltaTime \in Deltas, r1 \in Rolls, r2 \in Rolls :
        /\ advances < MaxAdvances
        /\ AdvanceClock(deltaTime, r1, r2)
        /\ UNCHANGED <<speedMultiplier, isActive, lifecycle, dbTime>>
        /\ ClockFrame

\* a check that refuses only the negative multipliers
NegativeSpeed(multiplier) == multiplier < 0

\* multiplier <= 0
NotPositiveSpeed(multiplier) == multiplier <= 0

\* setSpeed throws on a multiplier that is not positive
SetSpeed ==
    \E multiplier \in {0 - 1} \cup Speeds :
        /\ IF NotPositiveSpeed(multiplier)
           THEN /\ clockOp' = [op |-> "setSpeedThrew", fired |-> 0, delta |-> 0,
                               arg |-> multiplier]
                /\ UNCHANGED speedMultiplier
           ELSE /\ clockOp' = [op |-> "setSpeed", fired |-> 0, delta |-> 0,
                               arg |-> multiplier]
                /\ speedMultiplier' = multiplier
        /\ UNCHANGED <<tick, timeOfDay, isActive, weather, lifecycle, dbTime,
                       advances, exactTick, carried>>
        /\ ClockFrame

ClockNext ==
    \/ LoadWorldState
    \/ StartClock
    \/ StopClock
    \/ Advance
    \/ SetSpeed

(***************************************************************************)
(* Game: main loop, persistence, shutdown                                  *)
(***************************************************************************)
NoError == [failed |-> FALSE, at |-> 0]

GameInit ==
    /\ loopRunning = FALSE
    /\ scheduled = {}
    /\ terrainWrites = {}
    /\ playerWrites = {}
    /\ worldWrites = {}
    /\ dbPlayers = [p \in PlayerIds |-> PlayerStart(p)]
    /\ dbChunks = [pos \in {} |-> VoidTile]
    /\ dirtyPlayers = {}
    /\ moves = 0
    /\ shutdownDirty = {}
    /\ errorLog = NoError
    /\ sinceSave = 0

\* a game loop whose turn waits until no save is in flight
TickWaitsForSaves ==
    loopRunning /\ terrainWrites = {} /\ playerWrites = {} /\ worldWrites = {}

\* the interval timer of startGameLoop calls update whenever it is set
TickFires == loopRunning

\* a failed save that takes the game loop down
StopOnSaveError(running) == FALSE

\* the catch handlers of the flushes only report the error
OnSaveError(running) == running

\* a flush settles: its promise resolves, or rejects into its catch handler
SaveSettled(ok) ==
    /\ loopRunning' = IF ok THEN loopRunning ELSE OnSaveError(loopRunning)
    /\ errorLog' = IF ok THEN errorLog ELSE [failed |-> TRUE, at |-> advances]

\* WorldManager.getDirtyTiles
GetDirtyTiles(ts, dirty) == [pos \in dirty |-> GetTile(ts, pos)]
\* AgentManager.getDirtyPlayers
GetDirtyPlayers(pl, dirty) == [p \in dirty \cap DOMAIN pl |-> pl[p]]
\* the time document saveWorldState writes
WorldSnapshot ==
    FromSnapshotToDocument(ToSnapshot(tick, timeOfDay, speedMultiplier))

\* the rest of Game.init after loadWorldState
StartGame ==
    /\ lifecycle = "loaded"
    /\ lifecycle' = "running"
    /\ isActive' = TRUE
    /\ loopRunning' = TRUE
    /\ clockOp' = [op |-> "start", fired |-> 0, delta |-> 0, arg |-> 0]
    /\ UNCHANGED <<tick, timeOfDay, speedMultiplier, weather, dbTime, advances,
                   exactTick, carried>>
    /\ UNCHANGED <<scheduled, terrainWrites, playerWrites, worldWrites, dbPlayers,
                   dbChunks, dirtyPlayers, moves, shutdownDirty, errorLog, sinceSave>>
    /\ UNCHANGED <<gridVars, players>>
    /\ GameFrame

\* a periodic save that is due at every turn
SaveDueEveryTurn(elapsed) == TRUE

\* now - this.lastSaveTime >= this.autoSaveIntervalMs
SaveDue(elapsed) == elapsed >= AutoSaveIntervalMs

\* one turn of the game loop: Game.update
Update ==
    \E deltaTime \in LoopDeltas, r1 \in Rolls, r2 \in Rolls :
        LET elapsed == sinceSave + deltaTime
            saveDue == SaveDue(elapsed)
        IN
        /\ TickFires
        /\ advances < MaxAdvances
        /\ AdvanceClock(deltaTime, r1, r2)
        /\ scheduled' = scheduled
              \cup (IF GetDirtyPlayers(players, dirtyPlayers) # <<>>
                    THEN {"dirtyPlayers"} ELSE {})
              \cup (IF dirtyTiles # {} THEN {"terrain"} ELSE {})
              \cup (IF saveDue THEN {"periodic"} ELSE {})
        /\ sinceSave' = IF saveDue THEN 0 ELSE elapsed
        /\ UNCHANGED <<speedMultiplier, isActive, lifecycle, dbTime>>
        /\ UNCHANGED <<loopRunning, terrainWrites, playerWrites, worldWrites,
                       dbPlayers, dbChunks, dirtyPlayers, moves, shutdownDirty,
                       errorLog>>
        /\ UNCHANGED <<gridVars, players>>
        /\ GameFrame

\* the setImmediate callbacks Game.update scheduled run one after the other in
\* the order they were scheduled, each up to its await of the store:
\* saveDirtyPlayers, then saveDirtyTerrain, then the periodic saveWorldState and
\* saveAllPlayers
RunImmediates ==
    LET dirtySnapshots == GetDirtyPlayers(players, dirtyPlayers)
        flushPlayers == "dirtyPlayers" \in scheduled /\ dirtySnapshots # <<>>
        flushTerrain == "terrain" \in scheduled /\ dirtyTiles # {}
        periodic == "periodic" \in scheduled
        newPlayerWrites ==
            (IF flushPlayers THEN {[kind |-> "flush", snap |-> dirtySnapshots]}
             ELSE {})
            \cup (IF periodic THEN {[kind |-> "flush", snap |-> players]} ELSE {})
    IN
    /\ scheduled # {}
    /\ scheduled' = {}
    /\ flushTerrain => Cardinality(terrainWrites) < MaxInFlight
    /\ periodic => Cardinality(worldWrites) < MaxInFlight
    /\ newPlayerWrites # {} => Cardinality(playerWrites) < MaxInFlight
    /\ terrainWrites' = IF flushTerrain
                        THEN terrainWrites \cup {GetDirtyTiles(tiles, dirtyTiles)}
                        ELSE terrainWrites
    /\ worldWrites' = IF periodic
                      THEN worldWrites \cup {[kind |-> "flush", snap |-> WorldSnapshot]}
                      ELSE worldWrites
    /\ playerWrites' = playerWrites \cup newPlayerWrites
    /\ UNCHANGED <<loopRunning, dbPlayers, dbChunks, dirtyPlayers, moves,
                   shutdownDirty, errorLog, sinceSave>>
    /\ UNCHANGED <<gridVars, players, clockVars>>
    /\ GameFrame

\* the store answers a saveDirtyTerrain: on success the flags are cleared
TerrainWriteDone ==
    \E w \in terrainWrites, ok \in BOOLEAN :
        /\ terrainWrites' = terrainWrites \ {w}
        /\ IF ok
           THEN /\ dbChunks' = w
                /\ dirtyTiles' = {}
           ELSE UNCHANGED <<dbChunks, dirtyTiles>>
        /\ SaveSettled(ok)
        /\ UNCHANGED <<scheduled, playerWrites, worldWrites, dbPlayers,
                       dirtyPlayers, moves, shutdownDirty, sinceSave>>
        /\ UNCHANGED <<tiles, writes, gridOp, players, clockVars>>
        /\ GameFrame

\* the store answers a saveBatch of a flush
PlayerWriteDone ==
    \E w \in playerWrites, ok \in BOOLEAN :
        /\ w.kind = "flush"
        /\ playerWrites' = playerWrites \ {w}
        /\ dbPlayers' = IF ok THEN [p \in PlayerIds |->
                                      IF p \in DOMAIN w.snap THEN w.snap[p]
                                      ELSE dbPlayers[p]]
                        ELSE dbPlayers
        /\ SaveSettled(ok)
        /\ UNCHANGED <<scheduled, terrainWrites, worldWrites, dbChunks,
                       dirtyPlayers, moves, shutdownDirty, sinceSave>>
        /\ UNCHANGED <<gridVars, players, clockVars>>
        /\ GameFrame

\* the store answers a saveWorldState of the periodic save
WorldWriteDone ==
    \E w \in worldWrites, ok \in BOOLEAN :
        /\ w.kind = "flush"
        /\ worldWrites' = worldWrites \ {w}
        /\ dbTime' = IF ok THEN w.snap ELSE dbTime
        /\ UNCHANGED <<tick, timeOfDay, speedMultiplier, isActive, weather,
                       lifecycle, advances, exactTick, carried, clockOp>>
        /\ SaveSettled(ok)
        /\ UNCHANGED <<scheduled, terrainWrites, playerWrites, dbPlayers,
                       dbChunks, dirtyPlayers, moves, shutdownDirty, sinceSave>>
        /\ UNCHANGED <<gridVars, players>>
        /\ GameFrame

\* Game.handleInteraction, the request of a client
GameHandleInteraction ==
    \E req \in RequestInputs :
        LET r == ProcessInteraction(Grid(tiles, dirtyTiles), players, req) IN
        /\ lifecycle \notin {"new", "loaded"}
        /\ req.type \in {"till", "chop"}
        /\ r.res.success
        /\ writes < MaxTileEdits
        /\ writes' = writes + 1
        /\ tiles' = r.grid.tiles
        /\ dirtyTiles' = r.grid.dirty
        /\ UNCHANGED <<players, clockVars, gameVars>>
        /\ GameFrame

\* a client moves its player: PlayerAgent.move marks the player dirty
PlayerMove ==
    \E p \in PlayerIds :
        /\ lifecycle \notin {"new", "loaded"}
        /\ moves < MaxMoves
        /\ moves' = moves + 1
        /\ players' = [players EXCEPT ![p].x = @ + 2]
        /\ dirtyPlayers' = dirtyPlayers \cup {p}
        /\ UNCHANGED <<loopRunning, scheduled, terrainWrites, playerWrites,
                       worldWrites, dbPlayers, dbChunks, shutdownDirty, errorLog,
                       sinceSave>>
        /\ UNCHANGED <<gridVars, clockVars>>
        /\ GameFrame

\* Game.shutdown up to its first await
Shutdown ==
    /\ lifecycle = "running"
    /\ lifecycle' = "savingWorld"
    /\ isActive' = FALSE
    /\ loopRunning' = FALSE
    /\ clockOp' = [op |-> "stop", fired |-> 0, delta |-> 0, arg |-> 0]
    /\ worldWrites' = worldWrites \cup {[kind |-> "shutdown", snap |-> WorldSnapshot]}
    /\ shutdownDirty' = dirtyTiles
    /\ UNCHANGED <<tick, timeOfDay, speedMultiplier, weather, dbTime, advances,
                   exactTick, carried>>
    /\ UNCHANGED <<scheduled, terrainWrites, playerWrites, dbPlayers, dbChunks,
                   dirtyPlayers, moves, errorLog, sinceSave>>
    /\ UNCHANGED <<gridVars, players>>
    /\ GameFrame

\* the store answers shutdown's saveWorldState: shutdown goes on to
\* saveAllPlayers, or rejects
ShutdownWorldSaved ==
    \E w \in worldWrites, ok \in BOOLEAN :
        /\ w.kind = "shutdown"
        /\ worldWrites' = worldWrites \ {w}
        /\ IF ok
           THEN /\ dbTime' = w.snap
                /\ lifecycle' = "savingPlayers"
                /\ playerWrites' = playerWrites \cup
                                     {[kind |-> "shutdown", snap |-> players]}
           ELSE /\ lifecycle' = "rejected"
                /\ UNCHANGED <<dbTime, playerWrites>>
        /\ UNCHANGED <<tick, timeOfDay, speedMultiplier, isActive, weather,
                       advances, exactTick, carried, clockOp>>
        /\ UNCHANGED <<loopRunning, scheduled, terrainWrites, dbPlayers, dbChunks,
                       dirtyPlayers, moves, shutdownDirty, errorLog, sinceSave>>
        /\ UNCHANGED <<gridVars, players>>
        /\ GameFrame

\* the store answers shutdown's saveAllPlayers: shutdown completes, or rejects
ShutdownPlayersSaved ==
    \E w \in playerWrites, ok \in BOOLEAN :
        /\ w.kind = "shutdown"
        /\ playerWrites' = playerWrites \ {w}
        /\ dbPlayers' = IF ok THEN w.snap ELSE dbPlayers
        /\ lifecycle' = IF ok THEN "done" ELSE "rejected"
        /\ UNCHANGED <<tick, timeOfDay, speedMultiplier, isActive, weather, dbTime,
                       advances, exactTick, carried, clockOp>>
        /\ UNCHANGED <<loopRunning, scheduled, terrainWrites, worldWrites, dbChunks,
                       dirtyPlayers, moves, shutdownDirty, errorLog, sinceSave>>
        /\ UNCHANGED <<gridVars, players>>
        /\ GameFrame

\* getNextWeather(current) called on the current weather with one draw of
\* Math.random(), in percent
NextWeatherDrawn ==
    \E roll \in 0..MaxDraw :
        /\ weather' = GetNextWeather(weather, roll)
        /\ clockOp' = [op |-> "getNextWeather", fired |-> 0, delta |-> 0,
                       arg |-> roll]
        /\ UNCHANGED <<tick, timeOfDay, speedMultiplier, isActive, lifecycle,
                       dbTime, advances, exactTick, carried>>
        /\ ClockFrame

WeatherNext == NextWeatherDrawn

GameNext ==
    \/ LoadWorldState
    \/ StartGame
    \/ Update
    \/ RunImmediates
    \/ TerrainWriteDone
    \/ PlayerWriteDone
    \/ WorldWriteDone
    \/ GameHandleInteraction
    \/ PlayerMove
    \/ Shutdown
    \/ ShutdownWorldSaved
    \/ ShutdownPlayersSaved

(***************************************************************************)
(* Specifications                                                          *)
(***************************************************************************)
Init ==
    /\ GridInit
    /\ InteractInit
    /\ QueueInit
    /\ ClockInit
    /\ GameInit

SpecGrid == Init /\ [][GridNext]_vars
SpecWeather == Init /\ [][WeatherNext]_vars
SpecInteract == Init /\ [][InteractNext]_vars
\* the queue never looks at the world: one layout stands for all
QueueOnlyInit == Init /\ tiles = [p \in Coords |-> GrassTile]
SpecQueue == QueueOnlyInit /\ [][QueueNext]_vars
\* the queue with callers that also clear it
SpecQueueClear == QueueOnlyInit /\ [][QueueClearNext]_vars
\* the queue of agent a1 one short of its limit
QueueFullInit ==
    /\ GridInit
    /\ tiles = [p \in Coords |-> GrassTile]
    /\ InteractInit
    /\ QueueLoadedInit
    /\ ClockInit
    /\ GameInit
SpecQueueFull == QueueFullInit /\ [][QueueNext]_vars
SpecClock == Init /\ [][ClockNext]_vars
\* the game on a world with one tillable tile and one tree
GameWorldInit ==
    Init /\ tiles = [p \in Coords |-> IF p.x % 2 = 1 THEN TreeTile ELSE GrassTile]
SpecGame == GameWorldInit /\ [][GameNext]_vars

(***************************************************************************)
(* Properties                                                              *)
(***************************************************************************)

\* C1: requests on one coordinate are handled strictly in issue order: no
\* request still waits for its turn while processInteraction has already run
\* for a request on the same coordinate that was issued after it.
C1_HandledInIssueOrder ==
    \A k \in 1..Len(handlerLog) : \A id \in DOMAIN reqs :
        (id < handlerLog[k].id /\ reqs[id].req.target = handlerLog[k].target)
            => reqs[id].st # "awaitPrevious"

\* C2: for every agent at most one action body is in flight at any time; an
\* enqueue made while an action of the agent runs only adds to the queue.
C2_OneBodyPerAgent ==
    \A a \in Agents :
        Cardinality({ r \in runs : r.agent = a /\ r.st = "body" }) <= 1

\* C2 witness: two enqueues arrived while the first action of an agent is still
\* running; both wait in the queue.
C2_EnqueuedWhileRunning ==
    \E a \in Agents :
        /\ executing[a] # NoAction
        /\ Len(execLog[a]) = 1
        /\ Len(queues[a]) = 2
        /\ \E r \in runs : r.agent = a /\ r.st = "body"

\* C3: a setTile on an in-bounds tile that names the stored version v is
\* accepted and leaves the tile at version v + 1; a setTile that names any other
\* version returns false and leaves the tiles and the dirty set as they were.
C3_VersionCheckedWrite ==
    [][(/\ gridOp'.op = "setTile"
        /\ IsInBounds(gridOp'.pos)
        /\ gridOp'.expected # NoVersion)
       => LET pos == gridOp'.pos
              ev == gridOp'.expected
          IN IF ev = tiles[pos].version
             THEN /\ gridOp'.ok
                  /\ tiles'[pos].version = ev + 1
                  /\ \A q \in Coords \ {pos} : tiles'[q] = tiles[q]
             ELSE /\ ~gridOp'.ok
                  /\ tiles' = tiles
                  /\ dirtyTiles' = dirtyTiles]_vars

\* C3 witness: a write expecting version 3 has just been refused on a tile
\* that four accepted writes brought to version 4.
C3_StaleWriteRefused ==
    /\ gridOp.op = "setTile"
    /\ gridOp.expected = 3
    /\ ~gridOp.ok
    /\ IsInBounds(gridOp.pos)
    /\ tiles[gridOp.pos].version = 4

\* C4: advancing in several small steps leaves the clock at the same tick as a
\* clock that carries the fraction of a tick from one call to the next, that
\* is, as one advance by the sum of the deltas.
C4_NoDrift == tick = exactTick

\* C5: in every state of the clock the day phase is the one computed from the
\* tick modulo ticksPerDay.
C5_PhaseMatchesTick == timeOfDay = ResolvePeriod(tick)

\* C6: a restore calls the phase listeners exactly once when the phase computed
\* from the restored tick differs from the phase before the restore, and not at
\* all when it is the same.
C6_RestoreNotifiesOnChange ==
    [][(lifecycle = "new" /\ clockOp'.op = "restore")
       => /\ timeOfDay' = ResolvePeriod(tick')
          /\ clockOp'.fired = IF ResolvePeriod(tick') # timeOfDay THEN 1 ELSE 0]_vars

\* C8: a coordinate leaves the dirty set only in a step that leaves the store
\* holding the current state of that tile; in particular a tile changed while a
\* flush is in flight is still dirty when that flush completes.
C8_LeavesDirtySetOnlyWhenPersisted ==
    [][\A pos \in Coords :
          (pos \in dirtyTiles /\ pos \notin dirtyTiles')
          => (pos \in DOMAIN dbChunks' /\ dbChunks'[pos] = tiles'[pos])]_vars

\* C9: when shutdown has completed, loop and clock are stopped and the stored
\* clock and the stored snapshot of every player equal the state in memory.
C9_ShutdownPersistsClockAndPlayers ==
    lifecycle = "done"
    => /\ ~loopRunning
       /\ ~isActive
       /\ dbTime = WorldSnapshot
       /\ \A p \in DOMAIN players : dbPlayers[p] = players[p]

\* C10: when shutdown has completed, every coordinate that was dirty when
\* shutdown was called has its current tile state in the store.
C10_ShutdownFlushesDirtyTiles ==
    lifecycle = "done"
    => \A pos \in shutdownDirty :
          pos \in DOMAIN dbChunks /\ dbChunks[pos] = tiles[pos]

C11_HarvestCountsDown ==
    [][(gridOp'.op = "harvest" /\ IsInBounds(gridOp'.pos))
       => LET pos == gridOp'.pos
              old == tiles[pos]
          IN IF Harvestable(old.type) /\ old.durability >= 1
             THEN /\ gridOp'.ok
                  /\ \A q \in Coords \ {pos} : tiles'[q] = tiles[q]
                  /\ IF old.durability = 1
                     THEN /\ gridOp'.complete
                          /\ gridOp'.drops = GetDrops(old.type)
                          /\ tiles'[pos] =
                                [GrassTile EXCEPT !.version = old.version + 1]
                     ELSE /\ ~gridOp'.complete
                          /\ gridOp'.drops = <<>>
                          /\ tiles'[pos] =
                                [old EXCEPT !.durability = old.durability - 1,
                                            !.version = old.version + 1]
             ELSE ~Harvestable(old.type)
                  => (~gridOp'.ok /\ ~gridOp'.complete /\ tiles' = tiles)]_vars

\* C11 witness: the third harvest of a tree generated with durability 3 has
\* just turned it into grass and returned three wood.
C11_TreeFelledByThirdHarvest ==
    /\ gridOp.op = "harvest"
    /\ gridOp.ok
    /\ gridOp.complete
    /\ gridOp.drops = <<"wood", "wood", "wood">>
    /\ writes = 3
    /\ tiles[gridOp.pos].type = "GRASS"
    /\ tiles[gridOp.pos].version = 3

\* C12: every accepted call that writes a tile (setTile with or without an
\* expected version, till, plant, water, harvest) leaves that tile's version
\* exactly one higher and every other tile as it was; a refused call leaves all
\* tiles as they were; no step lowers the version of a tile.
C12_VersionStepsByOne ==
    [][/\ \A q \in Coords : tiles'[q].version >= tiles[q].version
       /\ gridOp'.op \in {"setTile", "till", "plant", "water", "harvest"}
          => IF gridOp'.ok
             THEN /\ IsInBounds(gridOp'.pos)
                  /\ tiles'[gridOp'.pos].version = tiles[gridOp'.pos].version + 1
                  /\ \A q \in Coords \ {gridOp'.pos} : tiles'[q] = tiles[q]
             ELSE tiles' = tiles]_vars

\* C12 witness: a tile was tilled, planted and watered and stands at version 3
\* while the other tile, never written, is still at version 0.
C12_ThreeWritesVersionThree ==
    /\ gridOp.op = "water"
    /\ gridOp.ok
    /\ tiles[gridOp.pos].version = 3
    /\ tiles[gridOp.pos].crop = "wheat"
    /\ \E q \in Coords \ {gridOp.pos} : tiles[q].version = 0

\* C13: the dirty set is the set of coordinates written by an accepted call
\* since the last clearDirtyFlags: an accepted write adds exactly its own
\* coordinate, a refused write (stale version, out of bounds, precondition not
\* met) leaves the set as it was, only clearDirtyFlags removes coordinates, and
\* it removes all of them.  Every dirty coordinate is on the map and has been
\* written at least once.
C13_DirtyAccumulatesUntilCleared ==
    /\ [](\A p \in dirtyTiles : p \in Coords /\ tiles[p].version >= 1)
    /\ [][/\ gridOp'.op \in {"setTile", "till", "plant", "water", "harvest"}
             => dirtyTiles' = IF gridOp'.ok THEN dirtyTiles \cup {gridOp'.pos}
                              ELSE dirtyTiles
          /\ gridOp'.op = "clear" => dirtyTiles' = {}
          /\ dirtyTiles \subseteq dirtyTiles' \/ gridOp'.op = "clear"]_vars

\* C13 witness: three writes were accepted, two of them on the same tile, and a
\* further write has just been refused; each coordinate is in the dirty set.
C13_RefusedWriteAfterTwoDirty ==
    /\ gridOp.op = "setTile"
    /\ ~gridOp.ok
    /\ dirtyTiles = Coords
    /\ writes = 3
    /\ \E p \in Coords : tiles[p].version = 2

\* C14: an accepted action never stays queued while nothing runs for its agent:
\* whenever the pending queue of an agent is not empty, a call of processQueue
\* is in progress for that agent (it executes a body or is about to take the
\* next action).
C14_QueuedActionHasARunner ==
    \A a \in Agents :
        queues[a] # <<>> => \E r \in runs : r.agent = a

\* C15: in every state each agent's pending queue is ordered by non-decreasing
\* priority value, and of two pending actions of the same priority the one
\* that was enqueued first comes first.
C15_QueueSortedStable ==
    \A a \in Agents :
        \A i, j \in 1..Len(queues[a]) :
            i < j => \/ queues[a][i].priority < queues[a][j].priority
                     \/ /\ queues[a][i].priority = queues[a][j].priority
                        /\ queues[a][i].id < queues[a][j].id

\* C15 witness: two actions of the same priority are pending behind a running
\* one, the earlier one first.
C15_EqualPrioritiesInArrivalOrder ==
    \E a \in Agents :
        /\ Len(queues[a]) = 2
        /\ executing[a] # NoAction
        /\ queues[a][1].priority = queues[a][2].priority
        /\ queues[a][1].id < queues[a][2].id

\* C16: a cancel never touches the executing action, the runs in progress or
\* the queue of another agent.  If the named action is pending and cancellable
\* the call returns true and removes exactly that action; if it is pending and
\* not cancellable the call returns false and leaves the queue as it was; if it
\* is the executing action the queue is left as it was.  An action is started
\* only out of the pending queue (or by the enqueue that brought it), so a
\* removed action is never executed; and a pending action that is not
\* cancellable leaves the queue only by being started or skipped as timed out.
C16_CancelRemovesOnlyQueuedCancellable ==
    [][/\ queueOp'.op = "cancel"
          => LET a == queueOp'.agent
                 found == { i \in 1..Len(queues[a]) :
                                queues[a][i].id = queueOp'.id }
             IN /\ UNCHANGED <<executing, runs, execLog, locks, skipped>>
                /\ \A b \in Agents \ {a} : queues'[b] = queues[b]
                /\ IF found = {} THEN queues'[a] = queues[a]
                   ELSE LET x == queues[a][CHOOSE i \in found : TRUE] IN
                        IF x.cancellable
                        THEN /\ queueOp'.ok
                             /\ queues'[a] =
                                  SelectSeq(queues[a], LAMBDA y : y.id # x.id)
                        ELSE /\ ~queueOp'.ok
                             /\ queues'[a] = queues[a]
       /\ \A a \in Agents :
            Len(execLog'[a]) > Len(execLog[a])
            => LET started == execLog'[a][Len(execLog'[a])].id IN
               \/ \E i \in 1..Len(queues[a]) : queues[a][i].id = started
               \/ queueOp'.op = "enqueue" /\ queueOp'.ok /\ queueOp'.id = started
       /\ \A a \in Agents : \A i \in 1..Len(queues[a]) :
            LET x == queues[a][i] IN
            (/\ ~x.cancellable
             /\ \A j \in 1..Len(queues'[a]) : queues'[a][j].id # x.id)
            => \/ /\ Len(execLog'[a]) = Len(execLog[a]) + 1
                  /\ execLog'[a][Len(execLog'[a])].id = x.id
               \/ x.id \in skipped']_vars

\* C16 witness: while the first action of an agent runs, a cancel has just
\* removed one of two pending actions and returned true.
C16_QueuedActionCancelled ==
    /\ queueOp.op = "cancel"
    /\ queueOp.ok
    /\ enqueued = 3
    /\ executing[queueOp.agent] # NoAction
    /\ executing[queueOp.agent].id # queueOp.id
    /\ Len(queues[queueOp.agent]) = 1
    /\ queues[queueOp.agent][1].id # queueOp.id
    /\ Len(execLog[queueOp.agent]) = 1

\* C17: no pending queue ever holds more than QueueLimit actions; an enqueue on
\* a queue that holds QueueLimit actions returns false and leaves the queues,
\* the executing actions, the locks and the runs as they were, and an enqueue on
\* a shorter queue is accepted.
C17_QueueBounded ==
    /\ [](\A a \in Agents : Len(queues[a]) <= QueueLimit)
    /\ [][queueOp'.op = "enqueue"
          => IF Len(queues[queueOp'.agent]) >= QueueLimit
             THEN /\ ~queueOp'.ok
                  /\ UNCHANGED <<queues, executing, locks, runs, execLog>>
             ELSE /\ queueOp'.ok
                  /\ \/ \E i \in 1..Len(queues'[queueOp'.agent]) :
                          queues'[queueOp'.agent][i].id = queueOp'.id
                     \/ executing'[queueOp'.agent].id = queueOp'.id]_vars

\* C17 witness: an enqueue has just been refused on a queue that holds
\* QueueLimit pending actions while an earlier action is executing.
C17_EnqueueRefusedAtLimit ==
    /\ queueOp.op = "enqueue"
    /\ ~queueOp.ok
    /\ Len(queues[queueOp.agent]) = QueueLimit
    /\ executing[queueOp.agent] # NoAction

\* C18: an action whose age at the moment it is taken from the queue exceeds
\* the timeout it declares is not started.
C18_ExpiredNeverExecuted ==
    [][\A a \in Agents :
          Len(execLog'[a]) > Len(execLog[a])
          => \A i \in 1..Len(queues[a]) :
                LET x == queues[a][i] IN
                x.id = execLog'[a][Len(execLog'[a])].id
                => ~(x.timeout # NoTimeout /\ now - x.timestamp > x.timeout)]_vars

\* C19: a turn of the game loop is never held up by a save: while the loop
\* timer is set the next turn can run whatever saves are in flight; the turn
\* itself starts no write and completes none, it only schedules callbacks; and
\* a flush is started only by such a scheduled callback.
C19_TickNeverWaitsForSave ==
    /\ []((loopRunning /\ advances < MaxAdvances) => ENABLED Update)
    /\ [][advances' # advances
          => UNCHANGED <<terrainWrites, playerWrites, worldWrites, dbTime,
                         dbChunks, dbPlayers, dirtyTiles>>]_vars
    /\ [][(\/ terrainWrites' \ terrainWrites # {}
           \/ \E w \in playerWrites' \ playerWrites : w.kind = "flush"
           \/ \E w \in worldWrites' \ worldWrites : w.kind = "flush")
          => (scheduled # {} /\ scheduled' = {} /\ advances' = advances)]_vars

\* C19 witness: a terrain flush started after the first turn is still in
\* flight, and the second turn has advanced the clock and scheduled the next
\* flush.
C19_TickedWhileSaveInFlight ==
    /\ loopRunning
    /\ terrainWrites # {}
    /\ advances = 2
    /\ tick = 2
    /\ "terrain" \in scheduled

\* C20: the step in which a flush fails changes nothing but the set of writes
\* in flight and the error report: the loop timer, the clock, the tiles and the
\* players are as before; and as long as nobody shuts the game down the loop
\* stays set after a failure and its next turn can run.
C20_SaveFailureKeepsLoopRunning ==
    /\ [][errorLog' # errorLog
          => UNCHANGED <<loopRunning, isActive, lifecycle, tick, timeOfDay,
                         tiles, dirtyTiles, players, dirtyPlayers, scheduled,
                         dbTime, dbChunks, dbPlayers>>]_vars
    /\ []((errorLog # NoError /\ lifecycle = "running")
          => /\ loopRunning
             /\ isActive
             /\ advances < MaxAdvances => ENABLED Update)

\* C20 witness: a flush failed after the first turn of the loop while a tile
\* was dirty, and the loop has since run its second turn and advanced the clock.
C20_TickedAfterFailedFlush ==
    /\ errorLog.failed
    /\ errorLog.at = 1
    /\ advances = 2
    /\ tick = 2
    /\ loopRunning
    /\ dirtyTiles # {}


\* C21: a turn of the game loop asks for the periodic save exactly when the
\* save interval has passed since the last time it asked, whether or not a tile
\* or a player is dirty, and restarts the interval at once; the periodic writes
\* start only from that request; a save that fails asks for no save and starts
\* no write, and leaves the running interval alone
C21_PeriodicSaveOncePerInterval ==
    [][/\ advances' # advances =>
            LET elapsed == sinceSave + clockOp'.delta IN
            IF elapsed >= AutoSaveIntervalMs
            THEN "periodic" \in scheduled' /\ sinceSave' = 0
            ELSE /\ "periodic" \in scheduled' => "periodic" \in scheduled
                 /\ sinceSave' = elapsed
       /\ (\E w \in worldWrites' \ worldWrites : w.kind = "flush")
            => "periodic" \in scheduled /\ scheduled' = {}
       /\ errorLog' # errorLog =>
            /\ UNCHANGED <<scheduled, sinceSave>>
            /\ worldWrites' \subseteq worldWrites
            /\ playerWrites' \subseteq playerWrites
            /\ terrainWrites' \subseteq terrainWrites
      ]_vars

\* the periodic save of the first turn failed with nothing dirty, and the second
\* turn, a save interval later, has asked for the periodic save again
C21_FailedPeriodicSaveAskedAgain ==
    /\ errorLog = [failed |-> TRUE, at |-> 1]
    /\ advances = 2
    /\ clockOp.op = "advance" /\ clockOp.delta = AutoSaveIntervalMs
    /\ "periodic" \in scheduled
    /\ dirtyTiles = {} /\ dirtyPlayers = {} /\ moves = 0 /\ writes = 0
    /\ worldWrites = {} /\ playerWrites = {}


\* the weather enum
WeatherTypes == {"clear", "rain", "storm", "snow", "fog"}

\* the probabilities of the first i entries of a table added up
RECURSIVE Cumulative(_, _)
Cumulative(transitions, i) ==
    IF i = 0 THEN 0 ELSE Cumulative(transitions, i - 1) + transitions[i][2]

\* C22: for every current weather and every draw, getNextWeather returns the
\* first entry of the current weather's table whose cumulative probability is at
\* least the draw, or the last entry of the table when there is none, and the
\* result is a weather of the enum
C22_FirstEntryCoveringTheDraw ==
    [][clockOp'.op = "getNextWeather" =>
          LET transitions == WeatherTransitions(weather)
              covering == {i \in 1..Len(transitions) :
                              Cumulative(transitions, i) >= clockOp'.arg}
              first == CHOOSE i \in covering : \A j \in covering : i <= j
          IN /\ weather' = IF covering # {} THEN transitions[first][1]
                           ELSE transitions[Len(transitions)][1]
             /\ weather' \in WeatherTypes
      ]_vars

\* a draw of exactly the cumulative probability of the storm entry (95 in the
\* clear and in the rain table) gave storm
C22_BoundaryDrawTakesCoveringEntry ==
    /\ clockOp.op = "getNextWeather"
    /\ clockOp.arg = 95
    /\ weather = "storm"


\* C23: a request whose player stands farther than the interaction radius from
\* the target (on whole cells: more than one cell away along an axis) gets the
\* too-far failure as its result and changes no tile, no version and no dirty
\* flag; a request of a player within the radius never gets the too-far failure
C23_TooFarRejectedWithoutEffect ==
    [][handlerLog' # handlerLog =>
          LET id == handlerLog'[Len(handlerLog')].id
              req == reqs'[id].req
              at == IF req.player \in DOMAIN players
                    THEN To2D(players[req.player]) ELSE req.target
              dx == at.x - req.target.x
              dy == at.y - req.target.y
              within == dx \in -1..1 /\ dy \in -1..1
          IN req.player \in DOMAIN players =>
                IF within THEN lastResult'.message # "tooFar"
                ELSE /\ lastResult' = Result(FALSE, "tooFar")
                     /\ UNCHANGED <<tiles, dirtyTiles, writes>>
      ]_vars

\* the first request came from the player off the map and was refused for its
\* distance
C23_FarRequestRefused ==
    /\ Len(handlerLog) = 1
    /\ lastResult = Result(FALSE, "tooFar")
    /\ writes = 0 /\ dirtyTiles = {}

\* C24: whenever no request is waiting or in flight, no coordinate has an entry
\* in the wait-queue map
C24_IdleMapIsEmpty ==
    DOMAIN reqs = {} => \A c \in Positions : interactionQueues[c] = NoPromise

\* three requests for one coordinate were all handled and have all returned
C24_ThreeOnOneCoordinateSettled ==
    /\ issued = MaxReq /\ MaxReq >= 3
    /\ DOMAIN reqs = {}
    /\ Len(handlerLog) = issued
    /\ \A i \in 1..Len(handlerLog) : handlerLog[i].target = handlerLog[1].target
    /\ \A c \in Positions : interactionQueues[c] = NoPromise


\* C25: every interaction type of the vocabulary is dispatched to a handler: no
\* request of a declared type made by an existing player within the radius gets
\* the unknown-type failure as its result
C25_EveryDeclaredTypeDispatched ==
    [][handlerLog' # handlerLog =>
          LET id == handlerLog'[Len(handlerLog')].id
              req == reqs'[id].req
          IN req.type \in InteractionTypes => lastResult'.message # "unknownType"
      ]_vars


\* C26: setSpeed with a multiplier of zero or less throws and leaves the tick,
\* the day phase and the speed as they were; with a positive multiplier it sets
\* the speed to it and leaves the tick and the day phase as they were
C26_SetSpeedRefusesNonPositive ==
    [][clockOp'.op \in {"setSpeed", "setSpeedThrew"} =>
          /\ UNCHANGED <<tick, timeOfDay>>
          /\ IF clockOp'.arg <= 0
             THEN clockOp'.op = "setSpeedThrew" /\ UNCHANGED speedMultiplier
             ELSE clockOp'.op = "setSpeed" /\ speedMultiplier' = clockOp'.arg
      ]_vars

\* the clock ran at double speed and has advanced when setSpeed(0) was refused
C26_ZeroRefusedAtDoubleSpeed ==
    /\ clockOp.op = "setSpeedThrew" /\ clockOp.arg = 0
    /\ speedMultiplier = 2
    /\ tick > 0

\* C27: an advance calls the phase listener, and with it the weather update,
\* exactly when the day phase after the advance differs from the phase before;
\* the weather the listener leaves is one the update draws for the new phase,
\* and an advance within one phase leaves the weather alone
C27_ListenerOnlyOnPhaseChange ==
    [][clockOp'.op = "advance" =>
          /\ clockOp'.fired > 0 <=> timeOfDay' # timeOfDay
          /\ clockOp'.fired <= 1
          /\ IF timeOfDay' # timeOfDay
             THEN weather' \in {WeatherUpdate(timeOfDay', weather, r1, r2) :
                                  r1 \in Rolls, r2 \in Rolls}
             ELSE weather' = weather
      ]_vars

\* a first advance of one tick stayed within the dawn and called no listener;
\* the second advance crossed into the day and called it
C27_SecondAdvanceChangedPhase ==
    /\ clockOp.op = "advance" /\ clockOp.fired = 1
    /\ advances = 2
    /\ tick = TicksPerDay \div 4 + 1
    /\ timeOfDay = "day"


\* C28: also when callers clear the queue of an agent, no agent has two action
\* bodies in flight at once, and while a body of an agent is in flight after a
\* new enqueue the execution lock of that agent stays in place
C28_OneBodyAcrossClearAll ==
    \A a \in Agents :
        LET bodies == { r \in runs : r.agent = a /\ r.st = "body" } IN
        /\ Cardinality(bodies) <= 1
        /\ (bodies # {} /\ executing[a] # NoAction) => locks[a]


\* C30: when the body of an action fails or throws, the next queued action of
\* the agent that has not timed out becomes the executing one and its body is
\* started; when there is none, the agent is left with no executing action and
\* with a run that only has its lock to delete; and an agent none of whose runs
\* is left has no executing action and no lock
C30_FailureDoesNotStopQueue ==
    /\ [](\A a \in Agents :
            (\A r \in runs : r.agent # a) =>
                executing[a] = NoAction /\ ~locks[a])
    /\ [][(queueOp'.op = "bodyDone" /\ ~queueOp'.ok) =>
             LET a == queueOp'.agent
                 live == { i \in 1..Len(queues[a]) : ~Expired(queues[a][i], now) }
                 next == CHOOSE i \in live : \A j \in live : i <= j
             IN IF live = {}
                THEN /\ executing'[a] = NoAction
                     /\ queues'[a] = <<>>
                     /\ \E r \in runs' : r.agent = a /\ r.st = "unlock"
                     /\ execLog'[a] = execLog[a]
                ELSE /\ executing'[a] = queues[a][next]
                     /\ queues'[a] = SubSeq(queues[a], next + 1, Len(queues[a]))
                     /\ \E r \in runs' : /\ r.agent = a /\ r.st = "body"
                                          /\ r.action = queues[a][next].id
                     /\ Len(execLog'[a]) = Len(execLog[a]) + 1
          ]_vars

\* the first action of an agent failed or threw, and the second one, queued
\* behind it, is now the executing one
C30_NextStartedAfterFailure ==
    /\ queueOp.op = "bodyDone" /\ ~queueOp.ok
    /\ executing[queueOp.agent] # NoAction
    /\ executing[queueOp.agent].id # queueOp.id
    /\ Len(execLog[queueOp.agent]) = 2
    /\ locks[queueOp.agent]


\* C29: when the store has taken the flush of the dirty players, a flushed
\* player that has not changed since the flush was drawn is no longer marked
\* dirty
C29_FlushedPlayersNotDirty ==
    [][\A w \in playerWrites \ playerWrites' :
          (/\ w.kind = "flush"
           /\ DOMAIN w.snap \subseteq dirtyPlayers
           /\ dbPlayers' # dbPlayers)
          => \A p \in DOMAIN w.snap :
                players[p] = w.snap[p] => p \notin dirtyPlayers'
      ]_vars

============================================================================
